---- MODULE Spec2Model ----
(***************************************************************************)
(* A state-machine model of the OpenGL wrapper in src/utils:               *)
(*   - OpenGLSession (opengl_session.py): shader build, component          *)
(*     registration, buffer upload and rendering;                          *)
(*   - Camera / RestrictedCamera (camera.py);                              *)
(*   - GLFWWindow (glfw_window.py): the display() frame generator and the  *)
(*     input callback tables.                                              *)
(* Each subsystem has its own specification; the variables of the other    *)
(* subsystems stay at their initial values.                                *)
(***************************************************************************)
EXTENDS Integers, Sequences, FiniteSets, TLC

\* ------------------------------------------------------------------ bounds
\* Number of distinct components (WaveFrontObject instances) a caller holds.
NumComponents == 2
\* Cap on the number of materials registered in the session at one time.
MaxMaterials == 3
\* Cap on the number of frames the display loop yields.
MaxFrames == 5
\* Cap on the number of add_*_callback calls.
MaxRegistrations == 2
\* Camera positions are integer points with every coordinate in
\* -MaxCoord .. MaxCoord (a plain Camera is not moved beyond that range).
MaxCoord == 1

VARIABLES
    \* ---- OpenGLSession
    session,        \* "new" (not constructed), "failed" (__init__ raised), "live"
    shader_status,  \* what the GL driver answers for the compile / link status queries
    program,        \* self.program: "None" or the program handle
    gl_current_program, \* the program made current by glUseProgram ("None" if none)
    materials,      \* self.materials: sequence of materials, registration order
    buffered,       \* self.buffered
    uniform_buffers,\* self.model_buffer, self.view_buffer, ... (uniform handles)
    gpu_vertices,   \* contents of the position buffer uploaded by glBufferData
    gpu_textures,   \* gpu_textures[i+1]: image loaded into texture id i
    gl_calls,       \* the GL calls issued by the last session operation, in order
    raised,         \* exception raised by the last session operation ("None" if none)
    exc_arg,        \* argument carried by that exception
    session_op,     \* the last session operation
    session_arg,    \* the component or collection that operation was given
    \* ---- Camera / RestrictedCamera
    camera,         \* the camera object: a record of its attributes
    camera_op,      \* the last camera operation
    \* ---- GLFWWindow.display
    display,        \* the generator returned by display(): "unstarted", "suspended"
                    \* (at its yield) or "finished"
    should_close,   \* the window's close flag (glfw.window_should_close)
    glfw_log,       \* the glfw calls and yields made by the generator, in order
    display_result, \* how the last resumption of the generator ended
    \* ---- GLFWWindow input callbacks
    key_callbacks,  \* self.key_callbacks: key code -> list of callbacks
    mouse_callbacks,\* self.mouse_callbacks: button code -> list of callbacks
    cursor_callbacks,\* self.cursor_callbacks: list of callbacks
    registrations,  \* every add_*_callback call made so far, in order
    invoked,        \* the callback invocations of the last input event, in order
    input_op,       \* the last input operation and its arguments
    input_raised,   \* exception raised by the last input operation
    \* ---- OpenGLComponent and its shapes
    component,      \* the object the last constructor call produced (NoComponent
                    \* if it raised), with the transforms applied to it since
    component_op,   \* the last component operation and its arguments
    component_raised \* exception raised by the last component operation

session_vars == <<session, shader_status, program, gl_current_program, materials,
                  buffered, uniform_buffers, gpu_vertices, gpu_textures, gl_calls,
                  raised, exc_arg, session_op, session_arg>>

camera_vars == <<camera, camera_op>>

display_vars == <<display, should_close, glfw_log, display_result>>

input_vars == <<key_callbacks, mouse_callbacks, cursor_callbacks, registrations,
                invoked, input_op, input_raised>>

window_vars == <<display_vars, input_vars>>

component_vars == <<component, component_op, component_raised>>

vars == <<session_vars, camera_vars, window_vars, component_vars>>

\* ---------------------------------------------------------------- helpers
RECURSIVE SumSeq(_)
SumSeq(s) == IF s = <<>> THEN 0 ELSE Head(s) + SumSeq(Tail(s))

RECURSIVE ConcatAll(_)
ConcatAll(ss) == IF ss = <<>> THEN <<>> ELSE Head(ss) \o ConcatAll(Tail(ss))

\* ------------------------------------------------- components and materials
\* A material is the pair <<c, j>>: the j-th material of component c.
\* Component c owns c materials; material <<c, j>> holds c + j - 1 vertices, each a
\* distinct value <<c, j, k>>, so that slices of a buffer identify their origin.
Components == 1 .. NumComponents

NoMaterial == <<0, 0>>

ComponentMaterials(c) == [j \in 1 .. c |-> <<c, j>>]

MtVertices(mt) == [k \in 1 .. (mt[1] + mt[2] - 1) |-> <<mt[1], mt[2], k>>]

MtTextureFilepath(mt) == <<"texture", mt[1], mt[2]>>

\* Nested collections handed to add_components: a leaf is a component, a list
\* is a Python iterable of further items.
Leaf(c) == [leaf |-> TRUE, component |-> c, items |-> <<>>]

List(items) == [leaf |-> FALSE, component |-> 0, items |-> items]

Collections ==
    {List(<<>>)}
    \cup {List(<<Leaf(a)>>) : a \in Components}
    \cup {List(<<List(<<Leaf(a)>>)>>) : a \in Components}
    \cup {List(<<Leaf(a), Leaf(b)>>) : a, b \in Components}
    \cup {List(<<List(<<Leaf(a)>>), Leaf(b)>>) : a, b \in Components}
    \cup {List(<<Leaf(a), List(<<List(<<Leaf(b)>>)>>)>>) : a, b \in Components}

\* no component and no collection (the operation takes none)
NoCollection == List(<<>>)

\* a flatten that walks every collection from its last item to its first
RECURSIVE flatten_right_to_left(_)
flatten_right_to_left(items) ==
    IF items = <<>> THEN <<>>
    ELSE LET item == items[Len(items)]
         IN  (IF ~item.leaf THEN flatten_right_to_left(item.items)
              ELSE <<item.component>>)
             \o flatten_right_to_left(SubSeq(items, 1, Len(items) - 1))

\* iterutils.flatten: depth-first, left to right; an iterable item is descended
\* into, any other item is yielded.
RECURSIVE flatten(_)
flatten(items) ==
    IF items = <<>> THEN <<>>
    ELSE LET item == Head(items)
         IN  (IF ~item.leaf THEN flatten(item.items) ELSE <<item.component>>)
             \o flatten(Tail(items))

\* ------------------------------------------------------------- GL call log
Call(fn, arg, mt, first, count) ==
    [fn |-> fn, arg |-> arg, mt |-> mt, first |-> first, count |-> count]

UniformNames == {"model", "view", "projection", "ka", "kd", "ks", "ns", "lightPos"}

NoBuffers == [u \in UniformNames |-> "None"]

\* glGetUniformLocation(self.program, name)
glGetUniformLocation(name) == name

\* ------------------------------------------------ Camera / RestrictedCamera
\* Vectors (glm.vec3) are triples of integers.  Angles are whole multiples of
\* 90 degrees, for which the direction cosines are exactly -1, 0 or 1.
Vec(x, y, z) == <<x, y, z>>

VAdd(u, v) == <<u[1] + v[1], u[2] + v[2], u[3] + v[3]>>

VSub(u, v) == <<u[1] - v[1], u[2] - v[2], u[3] - v[3]>>

VScale(k, v) == <<k * v[1], k * v[2], k * v[3]>>

Dot(u, v) == u[1] * v[1] + u[2] * v[2] + u[3] * v[3]

\* glm.cross
Cross(u, v) == << u[2] * v[3] - u[3] * v[2],
                 u[3] * v[1] - u[1] * v[3],
                 u[1] * v[2] - u[2] * v[1] >>

\* cos(glm.radians(a)) and sin(glm.radians(a)) for a multiple of 90 degrees
Cos(a) == CASE a % 360 = 0 -> 1 [] a % 360 = 180 -> -1 [] OTHER -> 0

Sin(a) == CASE a % 360 = 90 -> 1 [] a % 360 = 270 -> -1 [] OTHER -> 0

Length(v) == CHOOSE n \in 0 .. Dot(v, v) : n * n = Dot(v, v)

HorizontalUnits == {Vec(1, 0, 0), Vec(-1, 0, 0), Vec(0, 0, 1), Vec(0, 0, -1)}

\* glm.normalize: the possible results.  A vector of length zero at this
\* resolution stands for a vector whose components are rounding residues
\* (cos(radians(90.0)) is not exactly 0 in floating point): its normalization
\* is a unit vector whose direction the residues decide.  The only vector
\* normalized that can be that short is front x up, which is horizontal.
Normalize(v) ==
    IF Dot(v, v) = 0 THEN HorizontalUnits
    ELSE {Vec(v[1] \div Length(v), v[2] \div Length(v), v[3] \div Length(v))}

\* Camera.__init__ (RestrictedCamera.__init__ adds the six bounds)
NewCamera(kind, speed, sensitivity, pitch, position, box) ==
    [ kind |-> kind, active |-> TRUE, speed |-> speed, sensitivity |-> sensitivity,
      last_xpos |-> 0, last_ypos |-> 0, yaw |-> -90, pitch |-> pitch,
      position |-> position, front |-> Vec(0, 0, -1), up |-> Vec(0, 1, 0),
      min_xpos |-> box[1][1], max_xpos |-> box[1][2],
      min_ypos |-> box[2][1], max_ypos |-> box[2][2],
      min_zpos |-> box[3][1], max_zpos |-> box[3][2] ]

\* Camera.move_forward, move_backward: along front when active
Camera_move_forward_ignores_speed(cam) ==
    IF cam.active = TRUE
    THEN [cam EXCEPT !.position = VAdd(cam.position, cam.front)]
    ELSE cam

Camera_move_forward(cam) ==
    IF cam.active = TRUE
    THEN [cam EXCEPT !.position = VAdd(cam.position, VScale(cam.speed, cam.front))]
    ELSE cam

Camera_move_backward(cam) ==
    IF cam.active = TRUE
    THEN [cam EXCEPT !.position = VSub(cam.position, VScale(cam.speed, cam.front))]
    ELSE cam

\* Camera.move_right, move_left: along normalize(cross(front, up)) when active;
\* the set of cameras the call can leave.
Camera_move_right(cam) ==
    IF cam.active = TRUE
    THEN {[cam EXCEPT !.position = VAdd(cam.position, VScale(cam.speed, r))] :
             r \in Normalize(Cross(cam.front, cam.up))}
    ELSE {cam}

Camera_move_left(cam) ==
    IF cam.active = TRUE
    THEN {[cam EXCEPT !.position = VSub(cam.position, VScale(cam.speed, r))] :
             r \in Normalize(Cross(cam.front, cam.up))}
    ELSE {cam}

\* The pitch range control of move_front
ClampPitchUpperOnly(pitch) == IF pitch >= 90 THEN 90 ELSE pitch

ClampPitch(pitch) ==
    IF pitch >= 90 THEN 90
    ELSE IF pitch <= -90 THEN -90
    ELSE pitch

\* a move_front that does not store the cursor position it was given
Camera_move_front_keeps_cursor(cam, xpos, ypos) ==
    LET xoffset == cam.sensitivity * (xpos - cam.last_xpos)
        yoffset == cam.sensitivity * (cam.last_ypos - ypos)
        yaw     == cam.yaw + xoffset
        pitch   == ClampPitch(cam.pitch + yoffset)
        front   == Vec(Cos(yaw) * Cos(pitch), Sin(pitch), Sin(yaw) * Cos(pitch))
    IN  {[cam EXCEPT !.yaw = yaw, !.pitch = pitch, !.front = f] : f \in Normalize(front)}

\* Camera.move_front(xpos, ypos)
Camera_move_front(cam, xpos, ypos) ==
    LET xoffset == cam.sensitivity * (xpos - cam.last_xpos)
        yoffset == cam.sensitivity * (cam.last_ypos - ypos)
        yaw     == cam.yaw + xoffset
        pitch   == ClampPitch(cam.pitch + yoffset)
        front   == Vec(Cos(yaw) * Cos(pitch), Sin(pitch), Sin(yaw) * Cos(pitch))
    IN  {[cam EXCEPT !.last_xpos = xpos, !.last_ypos = ypos, !.yaw = yaw,
                     !.pitch = pitch, !.front = f] : f \in Normalize(front)}

\* a position check whose bounds are exclusive
check_position_exclusive(cam) ==
    /\ cam.min_xpos < cam.position[1] /\ cam.position[1] < cam.max_xpos
    /\ cam.min_ypos < cam.position[2] /\ cam.position[2] < cam.max_ypos
    /\ cam.min_zpos < cam.position[3] /\ cam.position[3] < cam.max_zpos

\* RestrictedCamera.check_position
check_position(cam) ==
    LET x == cam.position[1]
        y == cam.position[2]
        z == cam.position[3]
    IN  IF x < cam.min_xpos \/ x > cam.max_xpos THEN FALSE
        ELSE IF y < cam.min_ypos \/ y > cam.max_ypos THEN FALSE
        ELSE IF z < cam.min_zpos \/ z > cam.max_zpos THEN FALSE
        ELSE TRUE

\* The tail of every RestrictedCamera.move_*: moved is the camera after the
\* super() call; xyz the position saved before it.
RevertIfOutside(moved, xyz) ==
    IF check_position(moved) = FALSE THEN [moved EXCEPT !.position = xyz] ELSE moved

RestrictedCamera_move_forward(cam) == RevertIfOutside(Camera_move_forward(cam), cam.position)

RestrictedCamera_move_backward(cam) == RevertIfOutside(Camera_move_backward(cam), cam.position)

RestrictedCamera_move_right(cam) ==
    {RevertIfOutside(moved, cam.position) : moved \in Camera_move_right(cam)}

RestrictedCamera_move_left(cam) ==
    {RevertIfOutside(moved, cam.position) : moved \in Camera_move_left(cam)}

\* ---- the constructions and inputs explored
Speeds == {1, 2}

Sensitivities == {90, 180}

InitialPitches == {0, 180}

CursorX == 0 .. 1

CursorY == -1 .. 1

\* Boxes <<<<min_xpos, max_xpos>>, <<min_ypos, max_ypos>>, <<min_zpos, max_zpos>>>>
Boxes == { << <<-MaxCoord, MaxCoord>>, <<-MaxCoord, MaxCoord>>, <<0, MaxCoord>> >>,
           << <<0, MaxCoord>>, <<0, 0>>, <<1, MaxCoord>> >> }

\* the default bounds of RestrictedCamera.__init__
DefaultBox == << <<-1000, 1000>>, <<-1000, 1000>>, <<-1000, 1000>> >>

\* the default position (0, 0, 1), and a position outside every box
InitialPositions == {Vec(0, 0, 1), Vec(0, 0, -1)}

InWorld(position) == \A i \in 1 .. 3 : position[i] \in -MaxCoord .. MaxCoord

CameraIdle ==
    /\ camera = NewCamera("Camera", 1, 90, 0, Vec(0, 0, 1), DefaultBox)
    /\ camera_op = "None"

CameraInit ==
    /\ \E speed \in Speeds, sensitivity \in Sensitivities, pitch \in InitialPitches :
          \/ camera = NewCamera("Camera", speed, sensitivity, pitch, Vec(0, 0, 1), DefaultBox)
          \/ \E box \in Boxes, position \in InitialPositions :
                camera = NewCamera("RestrictedCamera", speed, sensitivity, pitch, position, box)
    /\ camera_op = "None"

Moved(cam) ==
    /\ InWorld(cam.position)
    /\ camera' = cam
    /\ UNCHANGED <<session_vars, window_vars, component_vars>>

move_forward ==
    /\ camera_op' = "move_forward"
    /\ Moved(IF camera.kind = "RestrictedCamera"
             THEN RestrictedCamera_move_forward(camera) ELSE Camera_move_forward(camera))

move_backward ==
    /\ camera_op' = "move_backward"
    /\ Moved(IF camera.kind = "RestrictedCamera"
             THEN RestrictedCamera_move_backward(camera) ELSE Camera_move_backward(camera))

move_right ==
    /\ camera_op' = "move_right"
    /\ \E cam \in (IF camera.kind = "RestrictedCamera"
                    THEN RestrictedCamera_move_right(camera) ELSE Camera_move_right(camera)) :
           Moved(cam)

move_left ==
    /\ camera_op' = "move_left"
    /\ \E cam \in (IF camera.kind = "RestrictedCamera"
                    THEN RestrictedCamera_move_left(camera) ELSE Camera_move_left(camera)) :
           Moved(cam)

move_front(xpos, ypos) ==
    /\ camera_op' = "move_front"
    /\ \E cam \in Camera_move_front(camera, xpos, ypos) : Moved(cam)

\* the caller assigns the public attribute `active`
set_active(value) ==
    /\ camera_op' = "set_active"
    /\ Moved([camera EXCEPT !.active = value])

CameraNext ==
    \/ move_forward
    \/ move_backward
    \/ move_right
    \/ move_left
    \/ \E xpos \in CursorX, ypos \in CursorY : move_front(xpos, ypos)
    \/ \E value \in BOOLEAN : set_active(value)

\* ------------------------------------------------------- OpenGLSession
\* glGetShaderInfoLog / glGetProgramInfoLog of an object
InfoLog(obj) ==
    CASE obj = "vertex" -> "vertex shader log"
      [] obj = "fragment" -> "fragment shader log"
      [] OTHER -> "program link log"

SessionStart(statuses) ==
    /\ session = "new"
    /\ shader_status \in statuses
    /\ program = "None"
    /\ gl_current_program = "None"
    /\ materials = <<>>
    /\ buffered = FALSE
    /\ uniform_buffers = NoBuffers
    /\ gpu_vertices = <<>>
    /\ gpu_textures = <<>>
    /\ gl_calls = <<>>
    /\ raised = "None"
    /\ exc_arg = "None"
    /\ session_op = "None"
    /\ session_arg = NoCollection

SessionIdle == SessionStart({[vertex |-> TRUE, fragment |-> TRUE, link |-> TRUE]})

C0(fn, arg) == Call(fn, arg, NoMaterial, 0, 0)

\* OpenGLSession.__init__ as far as the outcome of the shader build: the
\* result record holds the exception, its argument and the GL calls made.
InitPrefix ==
    << C0("glCreateProgram", ""), C0("glCreateShader", "vertex"),
       C0("glCreateShader", "fragment"), C0("glShaderSource", "vertex"),
       C0("glShaderSource", "fragment"), C0("glCompileShader", "vertex"),
       C0("glGetShaderiv", "vertex") >>

InitFragment == << C0("glCompileShader", "fragment"), C0("glGetShaderiv", "fragment") >>

InitLink ==
    << C0("glAttachShader", "vertex"), C0("glAttachShader", "fragment"),
       C0("glLinkProgram", ""), C0("glGetProgramiv", "") >>

BuildFragmentFirst(st) ==
    IF ~st.fragment
    THEN [exc |-> "FragmentShaderException", arg |-> InfoLog("fragment"),
          calls |-> InitPrefix \o InitFragment \o <<C0("glGetShaderInfoLog", "fragment")>>]
    ELSE IF ~st.vertex
    THEN [exc |-> "VertexShaderException", arg |-> InfoLog("vertex"),
          calls |-> InitPrefix \o <<C0("glGetShaderInfoLog", "vertex")>>]
    ELSE IF ~st.link
    THEN [exc |-> "ProgramBuildException", arg |-> InfoLog("program"),
          calls |-> InitPrefix \o InitFragment \o InitLink
                    \o <<C0("glGetProgramInfoLog", "")>>]
    ELSE [exc |-> "None", arg |-> "None",
          calls |-> InitPrefix \o InitFragment \o InitLink
                    \o <<C0("glUseProgram", ""), C0("glEnable", "GL_TEXTURE_2D")>>]

Build(st) ==
    IF ~st.vertex
    THEN [exc |-> "VertexShaderException", arg |-> InfoLog("vertex"),
          calls |-> InitPrefix \o <<C0("glGetShaderInfoLog", "vertex")>>]
    ELSE IF ~st.fragment
    THEN [exc |-> "FragmentShaderException", arg |-> InfoLog("fragment"),
          calls |-> InitPrefix \o InitFragment \o <<C0("glGetShaderInfoLog", "fragment")>>]
    ELSE IF ~st.link
    THEN [exc |-> "ProgramBuildException", arg |-> InfoLog("program"),
          calls |-> InitPrefix \o InitFragment \o InitLink
                    \o <<C0("glGetProgramInfoLog", "")>>]
    ELSE [exc |-> "None", arg |-> "None",
          calls |-> InitPrefix \o InitFragment \o InitLink
                    \o <<C0("glUseProgram", ""), C0("glEnable", "GL_TEXTURE_2D")>>]

\* Common bookkeeping of an operation on the session.
OpWith(name, arg) ==
    /\ session_op' = name
    /\ session_arg' = arg
    /\ UNCHANGED <<camera_vars, window_vars, component_vars>>

Op(name) == OpWith(name, NoCollection)

session_init ==
    /\ session = "new"
    /\ LET b == Build(shader_status)
       IN  /\ raised' = b.exc
           /\ exc_arg' = b.arg
           /\ gl_calls' = b.calls
           /\ session' = IF b.exc = "None" THEN "live" ELSE "failed"
           /\ program' = IF b.exc = "None" THEN "program" ELSE program
           /\ gl_current_program' = IF b.exc = "None" THEN "program" ELSE gl_current_program
    /\ materials' = <<>>
    /\ buffered' = FALSE
    /\ Op("__init__")
    /\ UNCHANGED <<shader_status, uniform_buffers, gpu_vertices, gpu_textures>>

\* add_component: append the component's materials, in the component's order.
Registered(mts, c) == mts \o ComponentMaterials(c)

RECURSIVE RegisteredAll(_, _)
RegisteredAll(mts, cps) ==
    IF cps = <<>> THEN mts ELSE RegisteredAll(Registered(mts, Head(cps)), Tail(cps))

add_component(c) ==
    /\ session = "live"
    /\ Len(Registered(materials, c)) <= MaxMaterials
    /\ materials' = Registered(materials, c)
    /\ raised' = "None"
    /\ exc_arg' = "None"
    /\ gl_calls' = <<>>
    /\ OpWith("add_component", Leaf(c))
    /\ UNCHANGED <<session, shader_status, program, gl_current_program, buffered,
                   uniform_buffers, gpu_vertices, gpu_textures>>

add_components(components) ==
    /\ session = "live"
    /\ Len(RegisteredAll(materials, flatten(components.items))) <= MaxMaterials
    /\ materials' = RegisteredAll(materials, flatten(components.items))
    /\ raised' = "None"
    /\ exc_arg' = "None"
    /\ gl_calls' = <<>>
    /\ OpWith("add_components", components)
    /\ UNCHANGED <<session, shader_status, program, gl_current_program, buffered,
                   uniform_buffers, gpu_vertices, gpu_textures>>

clear_components ==
    /\ session = "live"
    /\ materials' = <<>>
    /\ buffered' = FALSE
    /\ raised' = "None"
    /\ exc_arg' = "None"
    /\ gl_calls' = <<>>
    /\ Op("clear_components")
    /\ UNCHANGED <<session, shader_status, program, gl_current_program,
                   uniform_buffers, gpu_vertices, gpu_textures>>

\* _get_vertices: np.vstack of the materials' vertex arrays, registration order.
get_vertices(mts) == ConcatAll([i \in 1 .. Len(mts) |-> MtVertices(mts[i])])

\* a texture loop that numbers the textures from 1 instead of 0
LoadedTexturesFromOne(old, mts, n) ==
    [i \in 1 .. (IF Len(old) > n + 1 THEN Len(old) ELSE n + 1) |->
        IF i = 1 THEN (IF Len(old) >= 1 THEN old[1] ELSE <<"texture", 0, 0>>)
        ELSE IF i <= n + 1 THEN MtTextureFilepath(mts[i - 1]) ELSE old[i]]

\* The texture table after the loop of process_buffers has loaded the images
\* of the first n materials: material i (0-based idx i-1) goes to texture id i-1.
LoadedTextures(old, mts, n) ==
    [i \in 1 .. (IF Len(old) > n THEN Len(old) ELSE n) |->
        IF i <= n THEN MtTextureFilepath(mts[i]) ELSE old[i]]

\* uniform lookups that leave out the light position
ResolvedBuffersWithoutLight ==
    [u \in UniformNames |-> IF u = "lightPos" THEN "None" ELSE glGetUniformLocation(u)]

\* the uniform handles after the lookups of process_buffers
ResolvedBuffers == [u \in UniformNames |-> glGetUniformLocation(u)]

\* a process_buffers that sets the buffered flag before it uploads anything
process_buffers_flags_first(bad_texture) ==
    /\ session = "live"
    /\ bad_texture \in {0, Len(materials)}
    /\ IF materials = <<>>
       THEN \* np.vstack([]) raises before anything is uploaded
            /\ raised' = "ValueError"
            /\ gl_calls' = <<C0("glGenBuffers", "")>>
            /\ buffered' = TRUE
            /\ UNCHANGED <<gpu_vertices, gpu_textures, uniform_buffers>>
       ELSE IF bad_texture > 0
       THEN /\ raised' = "FileNotFoundError"
            /\ gpu_vertices' = get_vertices(materials)
            /\ gpu_textures' = LoadedTextures(gpu_textures, materials, bad_texture - 1)
            /\ gl_calls' = <<C0("glGenBuffers", ""), C0("glBufferData", "position"),
                             C0("glGenTextures", "")>>
            /\ buffered' = TRUE
            /\ UNCHANGED uniform_buffers
       ELSE /\ raised' = "None"
            /\ gpu_vertices' = get_vertices(materials)
            /\ gpu_textures' = LoadedTextures(gpu_textures, materials, Len(materials))
            /\ uniform_buffers' = ResolvedBuffers
            /\ buffered' = TRUE
            /\ gl_calls' = <<C0("glGenBuffers", ""), C0("glBufferData", "position"),
                             C0("glGenTextures", ""), C0("glBufferData", "texture_coord"),
                             C0("glBufferData", "normals"), C0("glEnable", "GL_DEPTH_TEST")>>
    /\ exc_arg' = "None"
    /\ Op("process_buffers")
    /\ UNCHANGED <<session, shader_status, program, gl_current_program, materials>>

\* process_buffers. bad_texture = 0: every texture file loads; bad_texture = j:
\* Image.open fails on the j-th material's file.
\* The failure tried is on the last material's file.
process_buffers(bad_texture) ==
    /\ session = "live"
    /\ bad_texture \in {0, Len(materials)}
    /\ IF materials = <<>>
       THEN \* np.vstack([]) raises before anything is uploaded
            /\ raised' = "ValueError"
            /\ gl_calls' = <<C0("glGenBuffers", "")>>
            /\ UNCHANGED <<gpu_vertices, gpu_textures, uniform_buffers, buffered>>
       ELSE IF bad_texture > 0
       THEN /\ raised' = "FileNotFoundError"
            /\ gpu_vertices' = get_vertices(materials)
            /\ gpu_textures' = LoadedTextures(gpu_textures, materials, bad_texture - 1)
            /\ gl_calls' = <<C0("glGenBuffers", ""), C0("glBufferData", "position"),
                             C0("glGenTextures", "")>>
            /\ UNCHANGED <<uniform_buffers, buffered>>
       ELSE /\ raised' = "None"
            /\ gpu_vertices' = get_vertices(materials)
            /\ gpu_textures' = LoadedTextures(gpu_textures, materials, Len(materials))
            /\ uniform_buffers' = ResolvedBuffers
            /\ buffered' = TRUE
            /\ gl_calls' = <<C0("glGenBuffers", ""), C0("glBufferData", "position"),
                             C0("glGenTextures", ""), C0("glBufferData", "texture_coord"),
                             C0("glBufferData", "normals"), C0("glEnable", "GL_DEPTH_TEST")>>
    /\ exc_arg' = "None"
    /\ Op("process_buffers")
    /\ UNCHANGED <<session, shader_status, program, gl_current_program, materials>>

\* a _render_component that issues its draw call before the bindings
render_component_draws_first(idx, num_rendered_vertices, mt) ==
    << Call("glDrawArrays", "GL_TRIANGLES", NoMaterial, num_rendered_vertices,
            Len(MtVertices(mt))),
       Call("glUniform1f", "ka", mt, 0, 0),
       Call("glUniform1f", "kd", mt, 0, 0),
       Call("glUniform1f", "ks", mt, 0, 0),
       Call("glUniform1f", "ns", mt, 0, 0),
       Call("glUniformMatrix4fv", "model", mt, 0, 0),
       Call("glBindTexture", "GL_TEXTURE_2D", NoMaterial, idx, 0) >>

\* _render_component: the uniform bindings, the texture binding and the draw
\* call of one material.
render_component(idx, num_rendered_vertices, mt) ==
    << Call("glUniform1f", "ka", mt, 0, 0),
       Call("glUniform1f", "kd", mt, 0, 0),
       Call("glUniform1f", "ks", mt, 0, 0),
       Call("glUniform1f", "ns", mt, 0, 0),
       Call("glUniformMatrix4fv", "model", mt, 0, 0),
       Call("glBindTexture", "GL_TEXTURE_2D", NoMaterial, idx, 0),
       Call("glDrawArrays", "GL_TRIANGLES", NoMaterial, num_rendered_vertices,
            Len(MtVertices(mt))) >>

\* num_rendered_vertices += self._render_component(...)
AdvanceOverwrites(num_rendered_vertices, mt) == Len(MtVertices(mt))

Advance(num_rendered_vertices, mt) == num_rendered_vertices + Len(MtVertices(mt))

\* The loop of render over enumerate(flatten(self.materials)).
RECURSIVE RenderLoop(_, _, _)
RenderLoop(mts, idx, num_rendered_vertices) ==
    IF mts = <<>> THEN <<>>
    ELSE render_component(idx, num_rendered_vertices, Head(mts))
         \o RenderLoop(Tail(mts), idx + 1, Advance(num_rendered_vertices, Head(mts)))

\* The outcome of render(): the exception and the GL calls issued.
RenderUnguarded(is_buffered, mts) ==
    [exc |-> "None", calls |-> RenderLoop(mts, 0, 0)]

Render(is_buffered, mts) ==
    IF is_buffered = FALSE
    THEN [exc |-> "UninitializedBufferException", calls |-> <<>>]
    ELSE [exc |-> "None", calls |-> RenderLoop(mts, 0, 0)]

\* a render() that consumes the upload: it clears the buffered flag
render_consumes_upload ==
    /\ session = "live"
    /\ raised' = Render(buffered, materials).exc
    /\ gl_calls' = Render(buffered, materials).calls
    /\ exc_arg' = IF Render(buffered, materials).exc = "None" THEN "None"
                  ELSE "use process_buffers() before rendering"
    /\ buffered' = FALSE
    /\ Op("render")
    /\ UNCHANGED <<session, shader_status, program, gl_current_program, materials,
                   uniform_buffers, gpu_vertices, gpu_textures>>

render ==
    /\ session = "live"
    /\ raised' = Render(buffered, materials).exc
    /\ gl_calls' = Render(buffered, materials).calls
    /\ exc_arg' = IF Render(buffered, materials).exc = "None" THEN "None"
                  ELSE "use process_buffers() before rendering"
    /\ Op("render")
    /\ UNCHANGED <<session, shader_status, program, gl_current_program, materials,
                   buffered, uniform_buffers, gpu_vertices, gpu_textures>>

\* view, projection, move_light: one uniform call on the stored handle, with
\* no test of the buffered flag. The GL binding may refuse a handle that is
\* still None (rejected) or pass it on.
uniform_call(name, fn, handle, rejected) ==
    /\ rejected => handle = "None"
    /\ gl_calls' = <<Call(fn, handle, NoMaterial, 0, 0)>>
    /\ raised' = IF rejected THEN "ArgumentError" ELSE "None"
    /\ exc_arg' = "None"
    /\ Op(name)
    /\ UNCHANGED <<session, shader_status, program, gl_current_program, materials,
                   buffered, uniform_buffers, gpu_vertices, gpu_textures>>

move_light(rejected) ==
    /\ session = "live"
    /\ uniform_call("move_light", "glUniform3f", uniform_buffers["lightPos"], rejected)

view(rejected) ==
    /\ session = "live"
    /\ uniform_call("view", "glUniformMatrix4fv", uniform_buffers["view"], rejected)

projection(rejected) ==
    /\ session = "live"
    /\ uniform_call("projection", "glUniformMatrix4fv", uniform_buffers["projection"],
                    rejected)

SessionNext ==
    \/ session_init
    \/ \E c \in Components : add_component(c)
    \/ \E components \in Collections : add_components(components)
    \/ clear_components
    \/ \E bad_texture \in 0 .. MaxMaterials : process_buffers(bad_texture)
    \/ render
    \/ \E rejected \in BOOLEAN : move_light(rejected)
    \/ \E rejected \in BOOLEAN : view(rejected)
    \/ \E rejected \in BOOLEAN : projection(rejected)

\* ------------------------------------------------- GLFWWindow.display
Count(log, entry) == Cardinality({i \in 1 .. Len(log) : log[i] = entry})

\* The generator's outcome: its new state, the close flag, the log and how
\* the resumption ended for the caller.
Outcome(state, flag, log, result) ==
    [display |-> state, should_close |-> flag, glfw_log |-> log, result |-> result]

\* The finally clause: glfw.terminate(), then the generator is finished.
Finally(flag, log, result) == Outcome("finished", flag, log \o <<"terminate">>, result)

\* An exception leaving the loop with no finally clause around it.
NoFinally(flag, log, result) == Outcome("finished", flag, log, result)

\* The while loop from its condition to the yield.  poll_error: poll_events
\* raises (an input callback failed); close_requested: the user asks to
\* close the window while events are polled.
LoopPollsBeforeCheck(flag, log, poll_error, close_requested) ==
    IF poll_error
    THEN Finally(flag \/ close_requested, log \o <<"poll_events">>, "error")
    ELSE IF flag \/ close_requested
    THEN Finally(TRUE, log \o <<"poll_events", "window_should_close=True">>,
                 "StopIteration")
    ELSE Outcome("suspended", FALSE,
                 log \o <<"poll_events", "window_should_close=False", "yield">>, "yield")

LoopErrorSkipsTeardown(flag, log, poll_error, close_requested) ==
    IF flag
    THEN Finally(flag, log \o <<"window_should_close=True">>, "StopIteration")
    ELSE IF poll_error
    THEN NoFinally(flag \/ close_requested,
                   log \o <<"window_should_close=False", "poll_events">>, "error")
    ELSE Outcome("suspended", flag \/ close_requested,
                 log \o <<"window_should_close=False", "poll_events", "yield">>, "yield")

Loop(flag, log, poll_error, close_requested) ==
    IF flag
    THEN Finally(flag, log \o <<"window_should_close=True">>, "StopIteration")
    ELSE IF poll_error
    THEN Finally(flag \/ close_requested,
                 log \o <<"window_should_close=False", "poll_events">>, "error")
    ELSE Outcome("suspended", flag \/ close_requested,
                 log \o <<"window_should_close=False", "poll_events", "yield">>, "yield")

\* next(generator)
Resume(state, flag, log, swap_error, poll_error, close_requested) ==
    CASE state = "unstarted" ->
            Loop(flag, log \o <<"show_window", "set_cursor_pos">>, poll_error,
                 close_requested)
      [] state = "suspended" ->
            IF swap_error
            THEN Finally(flag, log \o <<"swap_buffers">>, "error")
            ELSE Loop(flag, log \o <<"swap_buffers">>, poll_error, close_requested)
      [] OTHER -> Outcome("finished", flag, log, "StopIteration")

\* generator.close() and generator.throw(): an exception is raised at the
\* point where the generator stands.
RaiseAt(state, flag, log, result) ==
    CASE state = "suspended" -> Finally(flag, log, result)
      [] OTHER -> Outcome("finished", flag, log, result)

DisplayIdle ==
    /\ display = "unstarted"
    /\ should_close = FALSE
    /\ glfw_log = <<>>
    /\ display_result = "None"

DisplayStep(out) ==
    /\ Count(out.glfw_log, "yield") <= MaxFrames
    /\ display' = out.display
    /\ should_close' = out.should_close
    /\ glfw_log' = out.glfw_log
    /\ display_result' = out.result
    /\ UNCHANGED <<session_vars, camera_vars, input_vars, component_vars>>

\* the caller (a for loop, or next()) resumes the generator
display_next(swap_error, poll_error, close_requested) ==
    /\ TRUE
    /\ DisplayStep(Resume(display, should_close, glfw_log, swap_error, poll_error,
                          close_requested))

\* the caller closes or abandons the generator (GeneratorExit)
display_close ==
    /\ TRUE
    /\ DisplayStep(RaiseAt(display, should_close, glfw_log, "closed"))

\* the caller throws an exception into the generator
display_throw ==
    /\ TRUE
    /\ DisplayStep(RaiseAt(display, should_close, glfw_log, "error"))

DisplayNext ==
    \/ \E swap_error, poll_error, close_requested \in BOOLEAN :
          display_next(swap_error, poll_error, close_requested)
    \/ display_close
    \/ display_throw

\* ------------------------------------------ GLFWWindow input callbacks
\* a lookup that does not fold the case of the name
UpperKeepsCase(name) == name

\* str.upper() on the names used
Upper(name) ==
    CASE name = "a" -> "A"
      [] name = "escape" -> "ESCAPE"
      [] name = "left" -> "LEFT"
      [] name = "right" -> "RIGHT"
      [] OTHER -> name

\* The attributes of the glfw module that the names used can reach:
\* glfw.KEY_<NAME> and glfw.MOUSE_BUTTON_<NAME>.
GlfwKey == [A |-> 65, ESCAPE |-> 256]

GlfwMouseButton == [LEFT |-> 0, RIGHT |-> 1]

KeyNames == {"a", "A", "escape", "bogus"}

ButtonNames == {"left", "right", "bogus"}

Callbacks == {"f", "g"}

\* the keys, buttons, actions and cursor positions of the events delivered
EventKeys == {65, 256}

EventButtons == {0, 1}

EventActions == {0, 1}

EventCursor == {<<3, 4>>}

\* defaultdict(list): looking a missing key up inserts an empty list
Lookup(table, key) == IF key \in DOMAIN table THEN table[key] ELSE <<>>

Touched(table, key) ==
    [k \in DOMAIN table \cup {key} |-> IF k \in DOMAIN table THEN table[k] ELSE <<>>]

\* self.<table>[key].append(callback)
PrependedTo(table, key, callback) ==
    [k \in DOMAIN table \cup {key} |->
        IF k = key THEN <<callback>> \o Lookup(table, key) ELSE table[k]]

AppendedTo(table, key, callback) ==
    [k \in DOMAIN table \cup {key} |->
        IF k = key THEN Append(Lookup(table, key), callback) ELSE table[k]]

\* the loop of key_event / mouse_event / cursor_event: callback(a, b) for
\* each callback of the list, in list order
Dispatch(callbacks, a, b) == [i \in 1 .. Len(callbacks) |-> <<callbacks[i], a, b>>]

EmptyTable == [k \in {} |-> <<>>]

InputIdle ==
    /\ key_callbacks = EmptyTable
    /\ mouse_callbacks = EmptyTable
    /\ cursor_callbacks = <<>>
    /\ registrations = <<>>
    /\ invoked = <<>>
    /\ input_op = <<"None", 0, 0>>
    /\ input_raised = "None"

Registration(op, name, callback) ==
    /\ Len(registrations) < MaxRegistrations
    /\ registrations' = Append(registrations, <<op, name, callback>>)
    /\ input_op' = <<op, 0, 0>>
    /\ invoked' = <<>>
    /\ UNCHANGED <<session_vars, camera_vars, display_vars, component_vars>>

add_key_callback(key, callback) ==
    /\ Registration("add_key_callback", key, callback)
    /\ IF Upper(key) \in DOMAIN GlfwKey
       THEN /\ key_callbacks' = AppendedTo(key_callbacks, GlfwKey[Upper(key)], callback)
            /\ input_raised' = "None"
       ELSE /\ input_raised' = "UnknownKeyError"
            /\ UNCHANGED key_callbacks
    /\ UNCHANGED <<mouse_callbacks, cursor_callbacks>>

add_mouse_callback(button, callback) ==
    /\ Registration("add_mouse_callback", button, callback)
    /\ IF Upper(button) \in DOMAIN GlfwMouseButton
       THEN /\ mouse_callbacks' =
                   AppendedTo(mouse_callbacks, GlfwMouseButton[Upper(button)], callback)
            /\ input_raised' = "None"
       ELSE /\ input_raised' = "UnknownKeyError"
            /\ UNCHANGED mouse_callbacks
    /\ UNCHANGED <<key_callbacks, cursor_callbacks>>

add_cursor_callback(callback) ==
    /\ Registration("add_cursor_callback", "", callback)
    /\ cursor_callbacks' = Append(cursor_callbacks, callback)
    /\ input_raised' = "None"
    /\ UNCHANGED <<key_callbacks, mouse_callbacks>>

Event(op, a, b) ==
    /\ input_op' = <<op, a, b>>
    /\ input_raised' = "None"
    /\ UNCHANGED <<registrations, session_vars, camera_vars, display_vars,
                   component_vars>>

key_event(key, action) ==
    /\ Event("key_event", key, action)
    /\ invoked' = Dispatch(Lookup(key_callbacks, key), key, action)
    /\ key_callbacks' = Touched(key_callbacks, key)
    /\ UNCHANGED <<mouse_callbacks, cursor_callbacks>>

mouse_event(button, action) ==
    /\ Event("mouse_event", button, action)
    /\ invoked' = Dispatch(Lookup(mouse_callbacks, button), button, action)
    /\ mouse_callbacks' = Touched(mouse_callbacks, button)
    /\ UNCHANGED <<key_callbacks, cursor_callbacks>>

cursor_event(xpos, ypos) ==
    /\ Event("cursor_event", xpos, ypos)
    /\ invoked' = Dispatch(cursor_callbacks, xpos, ypos)
    /\ UNCHANGED <<key_callbacks, mouse_callbacks, cursor_callbacks>>

InputNext ==
    \/ \E key \in KeyNames, callback \in Callbacks : add_key_callback(key, callback)
    \/ \E button \in ButtonNames, callback \in Callbacks :
          add_mouse_callback(button, callback)
    \/ \E callback \in Callbacks : add_cursor_callback(callback)
    \/ \E key \in EventKeys, action \in EventActions : key_event(key, action)
    \/ \E button \in EventButtons, action \in EventActions : mouse_event(button, action)
    \/ \E xy \in EventCursor : cursor_event(xy[1], xy[2])

\* ------------------------------------------ OpenGLComponent and its shapes
\* A vertex list is a sequence of rows; a matrix is a sequence of rows too.
\* A color argument is either None or a sequence of entries.
NoneColor == [none |-> TRUE, entries |-> <<>>]

Color(entries) == [none |-> FALSE, entries |-> entries]

\* colors.rgb_black_color() with its default opacity
rgb_black_color == <<0, 0, 0, 1>>

NoComponent == [class |-> "None", primitive |-> "None", vertices |-> <<>>, color |-> <<>>]

\* what a constructor call evaluates to: the object, or the exception
Returned(obj) == [raised |-> "None", obj |-> obj]

Raised(exception) == [raised |-> exception, obj |-> NoComponent]

\* an initializer that stores any color, whatever its length
OpenGLComponent_init_any_color(class, primitive, vertices, color) ==
    Returned([class |-> class, primitive |-> primitive, vertices |-> vertices,
              color |-> IF color.none THEN rgb_black_color ELSE color.entries])

OpenGLComponent_init(class, primitive, vertices, color) ==
    IF color.none
    THEN Returned([class |-> class, primitive |-> primitive, vertices |-> vertices,
                   color |-> rgb_black_color])
    ELSE IF Len(color.entries) # 4
    THEN Raised("ValueError")
    ELSE Returned([class |-> class, primitive |-> primitive, vertices |-> vertices,
                   color |-> color.entries])

Points_init(vertices, color) ==
    LET primitive == IF Len(vertices) = 1 THEN "GL_POINT" ELSE "GL_POINTS"
    IN  OpenGLComponent_init("Points", primitive, vertices, color)

Lines_init(vertices, color, mode) ==
    LET primitive ==
            IF Len(vertices) = 1 THEN "GL_LINE"
            ELSE IF mode # "None" /\ mode = "strip" THEN "GL_LINE_STRIP"
            ELSE IF mode # "None" /\ mode = "loop" THEN "GL_LINE_LOOP"
            ELSE "GL_LINES"
    IN  OpenGLComponent_init("Lines", primitive, vertices, color)

Triangles_init(vertices, color, mode) ==
    LET primitive ==
            IF mode # "None" /\ mode = "strip" THEN "GL_TRIANGLE_STRIP"
            ELSE IF mode # "None" /\ mode = "fan" THEN "GL_TRIANGLE_FAN"
            ELSE "GL_TRIANGLES"
    IN  OpenGLComponent_init("Triangles", primitive, vertices, color)

Trapezoid_init(vertices, color) ==
    IF Len(vertices) # 4
    THEN Raised("ValueError")
    ELSE OpenGLComponent_init("Trapezoid", "GL_TRIANGLE_STRIP",
                              Append(vertices, vertices[1]), color)

\* width and height are even here, so that width/2.0 is a whole number
Rectangle_init(class, width, height, x0, y0, color) ==
    LET w == width \div 2
        h == height \div 2
        vertices == << <<x0 + w, y0 + h>>, <<x0 + w, y0 - h>>, <<x0 - w, y0 - h>>,
                       <<x0 - w, y0 + h>>, <<x0 + w, y0 + h>> >>
    IN  OpenGLComponent_init(class, "GL_TRIANGLE_STRIP", vertices, color)

Square_init(side, x0, y0, color) == Rectangle_init("Square", side, side, x0, y0, color)

\* Angles are whole degrees (2*pi is 360); np.cos and np.sin answer in
\* thousandths, rounded, for the multiples of 30 degrees.
CosineTable == <<1000, 866, 500, 0, -500, -866, -1000, -866, -500, 0, 500, 866>>

np_cos(angle) == CosineTable[((angle % 360) \div 30) + 1]

np_sin(angle) == np_cos(angle + 270)

\* a linspace that starts at zero and leaves the end point out
np_linspace_from_zero(start, stop, num) ==
    [i \in 1 .. num |-> (i - 1) * (stop \div num)]

\* np.linspace(start, stop, num), end point included
np_linspace(start, stop, num) ==
    LET step == IF num > 1 THEN (stop - start) \div (num - 1) ELSE 0
    IN  [i \in 1 .. num |-> IF i = num /\ num > 1 THEN stop ELSE start + (i - 1) * step]

\* the vertices of a circle are in thousandths of the unit of x0, y0, radius
Circle_init(x0, y0, radius, num_vertices, color) ==
    LET angles == np_linspace(360 \div num_vertices, 360, num_vertices)
        x == [i \in 1 .. Len(angles) |-> x0 * 1000 + np_cos(angles[i]) * radius]
        y == [i \in 1 .. Len(angles) |-> y0 * 1000 + np_sin(angles[i]) * radius]
        vertices == [i \in 1 .. Len(x) |-> <<x[i], y[i]>>]
    IN  OpenGLComponent_init("Circle", "GL_TRIANGLE_FAN", vertices, color)

\* np.dot on two 2-D arrays: the matrix product, ValueError when the shapes
\* are not aligned
Aligned(a, b) == Len(a[1]) = Len(b)

np_dot(a, b) ==
    [i \in 1 .. Len(a) |->
        [j \in 1 .. Len(b[1]) |->
            SumSeq([k \in 1 .. Len(b) |-> a[i][k] * b[k][j]])]]

\* self.vertices = np.dot(matrix, self.vertices)
transformed(matrix, vertices) ==
    IF Aligned(matrix, vertices)
    THEN [raised |-> "None", vertices |-> np_dot(matrix, vertices)]
    ELSE [raised |-> "ValueError", vertices |-> vertices]

\* OpenGLComponent.__len__
len(cp) == Len(cp.vertices)

\* ---- the arguments tried
VertexLists ==
    { << <<1, 0>> >>,
      << <<1, 0>>, <<0, 0>> >>,
      << <<1, 0>>, <<0, 1>>, <<1, 1>> >>,
      << <<0, 0>>, <<1, 0>>, <<1, 1>>, <<0, 1>> >> }

ColorArgs ==
    { NoneColor, Color(<<1, 0, 0, 1>>), Color(<<1, 0, 0>>), Color(<<1, 0, 0, 1, 1>>),
      Color(<<>>) }

Primitives == {"GL_POINTS", "GL_TRIANGLES"}

Modes == {"None", "strip", "loop", "fan", "points"}

Widths == {2, 4}

Origins == {0, 1}

Radii == {1, 2}

CircleCounts == {3, 4, 6, 12}

Matrices ==
    { << <<1, 0>>, <<0, 1>> >>,
      << <<0, 1>>, <<1, 0>> >>,
      << <<0, 1>>, <<0, 0>> >>,
      << <<1, 1>> >>,
      << <<1, 0, 0>>, <<0, 1, 0>> >> }

NoArguments ==
    [op |-> "None", vertices |-> <<>>, color |-> NoneColor, mode |-> "None",
     numbers |-> <<>>, matrix |-> <<>>]

ComponentIdle ==
    /\ component = NoComponent
    /\ component_op = NoArguments
    /\ component_raised = "None"

\* x = Class(...): the object the call produces, or its exception
Constructed(result) ==
    /\ component' = result.obj
    /\ component_raised' = result.raised
    /\ UNCHANGED <<session_vars, camera_vars, window_vars>>

new_OpenGLComponent(primitive, vertices, color) ==
    /\ component_op' = [NoArguments EXCEPT !.op = "OpenGLComponent",
                            !.vertices = vertices, !.color = color, !.mode = primitive]
    /\ Constructed(OpenGLComponent_init("OpenGLComponent", primitive, vertices, color))

new_Points(vertices, color) ==
    /\ component_op' = [NoArguments EXCEPT !.op = "Points",
                            !.vertices = vertices, !.color = color]
    /\ Constructed(Points_init(vertices, color))

new_Lines(vertices, color, mode) ==
    /\ component_op' = [NoArguments EXCEPT !.op = "Lines",
                            !.vertices = vertices, !.color = color, !.mode = mode]
    /\ Constructed(Lines_init(vertices, color, mode))

new_Triangles(vertices, color, mode) ==
    /\ component_op' = [NoArguments EXCEPT !.op = "Triangles",
                            !.vertices = vertices, !.color = color, !.mode = mode]
    /\ Constructed(Triangles_init(vertices, color, mode))

new_Trapezoid(vertices, color) ==
    /\ component_op' = [NoArguments EXCEPT !.op = "Trapezoid",
                            !.vertices = vertices, !.color = color]
    /\ Constructed(Trapezoid_init(vertices, color))

new_Rectangle(width, height, x0, y0, color) ==
    /\ component_op' = [NoArguments EXCEPT !.op = "Rectangle", !.color = color,
                            !.numbers = <<width, height, x0, y0>>]
    /\ Constructed(Rectangle_init("Rectangle", width, height, x0, y0, color))

new_Square(side, x0, y0, color) ==
    /\ component_op' = [NoArguments EXCEPT !.op = "Square", !.color = color,
                            !.numbers = <<side, x0, y0>>]
    /\ Constructed(Square_init(side, x0, y0, color))

new_Circle(x0, y0, radius, num_vertices, color) ==
    /\ component_op' = [NoArguments EXCEPT !.op = "Circle", !.color = color,
                            !.numbers = <<x0, y0, radius, num_vertices>>]
    /\ Constructed(Circle_init(x0, y0, radius, num_vertices, color))

transform(matrix) ==
    /\ component # NoComponent
    /\ component_op' = [NoArguments EXCEPT !.op = "transform", !.matrix = matrix]
    /\ LET result == transformed(matrix, component.vertices) IN
       /\ component' = [component EXCEPT !.vertices = result.vertices]
       /\ component_raised' = result.raised
    /\ UNCHANGED <<session_vars, camera_vars, window_vars>>

ComponentNext ==
    \/ \E primitive \in Primitives, vertices \in VertexLists, color \in ColorArgs :
          new_OpenGLComponent(primitive, vertices, color)
    \/ \E vertices \in VertexLists, color \in ColorArgs : new_Points(vertices, color)
    \/ \E vertices \in VertexLists, color \in ColorArgs, mode \in Modes :
          new_Lines(vertices, color, mode)
    \/ \E vertices \in VertexLists, color \in ColorArgs, mode \in Modes :
          new_Triangles(vertices, color, mode)
    \/ \E vertices \in VertexLists, color \in ColorArgs : new_Trapezoid(vertices, color)
    \/ \E width \in Widths, height \in Widths, x0 \in Origins, y0 \in Origins,
          color \in ColorArgs : new_Rectangle(width, height, x0, y0, color)
    \/ \E side \in Widths, x0 \in Origins, y0 \in Origins, color \in ColorArgs :
          new_Square(side, x0, y0, color)
    \/ \E x0 \in Origins, y0 \in Origins, radius \in Radii,
          num_vertices \in CircleCounts, color \in ColorArgs :
          new_Circle(x0, y0, radius, num_vertices, color)
    \/ \E matrix \in Matrices : transform(matrix)


\* ------------------------------------------------------ specifications
SessionInit ==
    /\ SessionStart([vertex : BOOLEAN, fragment : BOOLEAN, link : BOOLEAN])
    /\ CameraIdle
    /\ DisplayIdle
    /\ InputIdle
    /\ ComponentIdle

CameraSpecInit == CameraInit /\ SessionIdle /\ DisplayIdle /\ InputIdle /\ ComponentIdle

DisplayInit == DisplayIdle /\ SessionIdle /\ CameraIdle /\ InputIdle /\ ComponentIdle

SessionSpec == SessionInit /\ [][SessionNext]_vars

CameraSpec == CameraSpecInit /\ [][CameraNext]_vars

DisplaySpec == DisplayInit /\ [][DisplayNext]_vars

InputInit == InputIdle /\ SessionIdle /\ CameraIdle /\ DisplayIdle /\ ComponentIdle

InputSpec == InputInit /\ [][InputNext]_vars

ComponentInit == ComponentIdle /\ SessionIdle /\ CameraIdle /\ DisplayIdle /\ InputIdle

ComponentSpec == ComponentInit /\ [][ComponentNext]_vars

\* ================================================================ claims
\* ---- OpenGLSession (SessionSpec)
BindingOrDrawCalls ==
    {i \in 1 .. Len(gl_calls) :
        gl_calls[i].fn \in {"glDrawArrays", "glUniform1f", "glUniformMatrix4fv",
                            "glBindTexture"}}

\* C1: a freshly constructed session and a session after clear_components()
\* have buffered = False, and render() on a session whose buffered flag is
\* false raises UninitializedBufferException and issues no draw call and no
\* uniform or texture binding.
C1_RenderUnbufferedRaises ==
    /\ (session = "live" /\ session_op \in {"__init__", "clear_components"})
          => buffered = FALSE
    /\ (session_op = "render" /\ buffered = FALSE)
          => (raised = "UninitializedBufferException" /\ BindingOrDrawCalls = {})

\* C1 witness: render() was called after clear_components() and a new
\* registration, with an old upload still on the GPU.
C1_Witness ==
    /\ session_op = "render"
    /\ buffered = FALSE
    /\ materials # <<>>
    /\ gpu_vertices # <<>>

\* the draw calls of the last operation, in order
Draws == SelectSeq(gl_calls, LAMBDA c : c.fn = "glDrawArrays")

DrawnTotal == SumSeq([i \in 1 .. Len(Draws) |-> Draws[i].count])

\* C2 (as claimed): whenever render() issues draw calls, the number of
\* vertices drawn equals the number of vertices uploaded by the most recent
\* process_buffers(), and every drawn slice lies inside the uploaded buffer.
C2_DrawsWithinUpload ==
    (session_op = "render" /\ Draws # <<>>)
        => /\ DrawnTotal = Len(gpu_vertices)
           /\ \A i \in 1 .. Len(Draws) :
                 Draws[i].first + Draws[i].count <= Len(gpu_vertices)

VertexCounts == [i \in 1 .. Len(materials) |-> Len(MtVertices(materials[i]))]

\* the draw calls are one per material, in registration order, over the
\* cumulative slices of the uploaded buffer, each slice holding exactly the
\* vertices of its material
DrawsMirrorUpload ==
    /\ Len(Draws) = Len(materials)
    /\ \A i \in 1 .. Len(Draws) :
          /\ Draws[i].first = SumSeq(SubSeq(VertexCounts, 1, i - 1))
          /\ Draws[i].count = VertexCounts[i]
          /\ SubSeq(gpu_vertices, Draws[i].first + 1, Draws[i].first + Draws[i].count)
                = MtVertices(materials[i])
    /\ DrawnTotal = SumSeq(VertexCounts)
    /\ DrawnTotal = Len(gpu_vertices)

\* C3: a render() that directly follows a successful process_buffers() does
\* not raise and issues exactly one draw call per registered material, the
\* i-th over first = sum of the vertex counts of the materials before it and
\* count = its own vertex count: contiguous slices, in upload order, whose
\* total is the number of vertices uploaded.
C3_RenderMirrorsUpload ==
    [][(session_op = "process_buffers" /\ raised = "None" /\ session_op' = "render")
         => (raised' = "None" /\ DrawsMirrorUpload')]_vars

\* C3 witness: a successful render() of three materials over their own upload.
C3_Witness ==
    /\ session_op = "render"
    /\ raised = "None"
    /\ Len(materials) >= 3
    /\ gpu_vertices = get_vertices(materials)
    /\ Len(Draws) = Len(materials)

HasCall(fn, arg) == \E i \in 1 .. Len(gl_calls) : gl_calls[i].fn = fn /\ gl_calls[i].arg = arg

\* C7: construction reports the first failing build step, vertex compile
\* before fragment compile before link, with that step's log; a failure
\* leaves no usable session and no current program; only when all three
\* succeed is the program current and the session live with no materials and
\* buffered = False.
C7_ConstructionOrder ==
    /\ session_op = "__init__" =>
          /\ ~shader_status.vertex =>
                /\ raised = "VertexShaderException"
                /\ exc_arg = "vertex shader log"
                /\ ~HasCall("glCompileShader", "fragment")
          /\ (shader_status.vertex /\ ~shader_status.fragment) =>
                /\ raised = "FragmentShaderException"
                /\ exc_arg = "fragment shader log"
          /\ (shader_status.vertex /\ shader_status.fragment /\ ~shader_status.link) =>
                /\ raised = "ProgramBuildException"
                /\ exc_arg = "program link log"
          /\ (shader_status.vertex /\ shader_status.fragment /\ shader_status.link) =>
                /\ raised = "None"
                /\ session = "live"
                /\ program = "program"
                /\ gl_current_program = "program"
                /\ materials = <<>>
                /\ buffered = FALSE
          /\ raised # "None" =>
                /\ session = "failed"
                /\ gl_current_program = "None"
                /\ ~HasCall("glLinkProgram", "") \/ raised = "ProgramBuildException"
                /\ ~HasCall("glUseProgram", "")
    /\ session # "live" => session_op \in {"None", "__init__"}

\* C7 witness: both shaders fail to compile and the vertex failure is reported.
C7_Witness ==
    /\ session_op = "__init__"
    /\ ~shader_status.vertex
    /\ ~shader_status.fragment
    /\ raised = "VertexShaderException"

\* ---- Camera / RestrictedCamera (CameraSpec)
MoveOps == {"move_forward", "move_backward", "move_left", "move_right"}

InBox(cam) ==
    /\ cam.min_xpos <= cam.position[1] /\ cam.position[1] <= cam.max_xpos
    /\ cam.min_ypos <= cam.position[2] /\ cam.position[2] <= cam.max_ypos
    /\ cam.min_zpos <= cam.position[3] /\ cam.position[3] <= cam.max_zpos

\* C4 (as claimed): after any move call a RestrictedCamera holds a position
\* inside its box, for every construction.
C4_AlwaysInBox ==
    (camera.kind = "RestrictedCamera" /\ camera_op \in MoveOps) => InBox(camera)

\* C5: after every move_front call the pitch lies in [-90, 90]; a pitch
\* accumulated to or beyond a limit is exactly that limit, and a pitch
\* accumulated strictly between the limits is kept.
C5_PitchClamped ==
    [][camera_op' = "move_front" =>
         LET accumulated == camera.pitch
                            + camera.sensitivity * (camera.last_ypos - camera'.last_ypos)
         IN  /\ camera'.pitch >= -90 /\ camera'.pitch <= 90
             /\ accumulated >= 90 => camera'.pitch = 90
             /\ accumulated <= -90 => camera'.pitch = -90
             /\ (accumulated > -90 /\ accumulated < 90) => camera'.pitch = accumulated
      ]_vars

\* C5 witness: a move_front call that started from the out-of-range
\* construction pitch 180 or overshot the lower limit, ending at a limit.
C5_Witness ==
    /\ camera_op = "move_front"
    /\ camera.sensitivity = 180
    /\ camera.last_ypos = 1
    /\ camera.pitch = -90

\* the displacements a move operation may apply, per unit of speed
MoveDirections(op, cam) ==
    CASE op = "move_forward" -> {cam.front}
      [] op = "move_backward" -> {VScale(-1, cam.front)}
      [] op = "move_right" -> Normalize(Cross(cam.front, cam.up))
      [] op = "move_left" ->
            {VScale(-1, r) : r \in Normalize(Cross(cam.front, cam.up))}

\* C6: on a Camera whose active flag is false the four move operations
\* change no field; on an active Camera each changes the position only, by
\* speed times front (forward, backward with the sign reversed) or speed
\* times normalize(front x up) (right, left with the sign reversed).
C6_MoveFrame ==
    [][(camera.kind = "Camera" /\ camera_op' \in MoveOps) =>
         IF camera.active = FALSE
         THEN camera' = camera
         ELSE \E d \in MoveDirections(camera_op', camera) :
                 camera' = [camera EXCEPT
                               !.position = VAdd(camera.position, VScale(camera.speed, d))]
      ]_vars

\* C6 witness: a move was called on an inactive Camera that had moved before.
C6_Witness ==
    /\ camera.kind = "Camera"
    /\ camera_op = "move_right"
    /\ camera.active = FALSE
    /\ camera.speed = 2
    /\ camera.position # Vec(0, 0, 1)

\* ---- GLFWWindow.display (DisplaySpec)
Started == glfw_log # <<>>

\* C8: once display() has started running, glfw.terminate is called exactly
\* once on every way out (close condition, close / abandon at the yield, an
\* error in the loop), nothing is called after it, and it is not called
\* while the generator can still run.
C8_TeardownOnce ==
    /\ Count(glfw_log, "terminate") <= 1
    /\ display # "finished" => Count(glfw_log, "terminate") = 0
    /\ (display = "finished" /\ Started) =>
          /\ Count(glfw_log, "terminate") = 1
          /\ glfw_log[Len(glfw_log)] = "terminate"

\* C8 witness: an error ended the loop after two frames.
C8_Witness ==
    /\ display = "finished"
    /\ display_result = "error"
    /\ Count(glfw_log, "yield") >= 2
    /\ glfw_log[Len(glfw_log) - 1] = "poll_events"

\* C9: the log is show_window, set_cursor_pos, then frames; each frame is a
\* close check answering False, one poll, one yield and one swap in that
\* order; the swap of a frame precedes the close check of the next; after a
\* close check answering True nothing but the teardown follows.
C9_FrameOrder ==
    \A i \in 1 .. Len(glfw_log) :
        LET e == glfw_log[i]
            prev == IF i > 1 THEN glfw_log[i - 1] ELSE "start"
        IN  /\ e = "show_window" => prev = "start"
            /\ e = "set_cursor_pos" => prev = "show_window"
            /\ e \in {"window_should_close=False", "window_should_close=True"}
                  => prev \in {"set_cursor_pos", "swap_buffers"}
            /\ e = "poll_events" => prev = "window_should_close=False"
            /\ e = "yield" => prev = "poll_events"
            /\ e = "swap_buffers" => prev = "yield"
            /\ prev = "window_should_close=True" => e = "terminate"
            /\ prev = "start" => e = "show_window"

\* C9 witness: three complete frames, then the close condition ended the loop.
C9_Witness ==
    /\ display = "finished"
    /\ display_result = "StopIteration"
    /\ Count(glfw_log, "swap_buffers") >= 3
    /\ Count(glfw_log, "window_should_close=True") = 1

\* ---- GLFWWindow input callbacks (InputSpec)
\* the callbacks registered so far by successful calls of `op` whose name
\* denotes `code` (case-insensitively), one entry per registration, in order
RegisteredFor(op, codes, code) ==
    LET hit(r) == /\ r[1] = op
                  /\ Upper(r[2]) \in DOMAIN codes
                  /\ codes[Upper(r[2])] = code
        hits == SelectSeq(registrations, hit)
    IN  [i \in 1 .. Len(hits) |-> hits[i][3]]

CursorRegistered ==
    LET hits == SelectSeq(registrations, LAMBDA r : r[1] = "add_cursor_callback")
    IN  [i \in 1 .. Len(hits) |-> hits[i][3]]

Expected(callbacks, a, b) == [i \in 1 .. Len(callbacks) |-> <<callbacks[i], a, b>>]

RecognizedKeys == [a |-> 65, escape |-> 256]

RecognizedButtons == [left |-> 0, right |-> 1]

Folded(name) ==
    CASE name = "A" -> "a"
      [] name = "ESCAPE" -> "escape"
      [] name = "LEFT" -> "left"
      [] name = "RIGHT" -> "right"
      [] OTHER -> name

\* the effect a registration call must have on its table: with a recognized
\* name the callback is appended to the list of the code and every other
\* list is kept; otherwise UnknownKeyError and the table is the same table
RegistrationEffect(recognized, name, callback, before, after, error) ==
    IF Folded(name) \in DOMAIN recognized
    THEN LET code == recognized[Folded(name)] IN
         /\ error = "None"
         /\ DOMAIN after = DOMAIN before \cup {code}
         /\ after[code] = Append(Lookup(before, code), callback)
         /\ \A k \in DOMAIN before \ {code} : after[k] = before[k]
    ELSE /\ error = "UnknownKeyError"
         /\ after = before

\* C11: add_key_callback / add_mouse_callback with an unrecognized name
\* raise UnknownKeyError and leave all three callback tables unchanged; with
\* a recognized name, in any case, they append the callback to the list of
\* that key (button), leave every other list alone and raise nothing.
C11_UnknownKeyLeavesTables ==
    [][Len(registrations') = Len(registrations) + 1 =>
          LET r == registrations'[Len(registrations')] IN
          /\ r[1] = "add_key_callback" =>
                /\ RegistrationEffect(RecognizedKeys, r[2], r[3],
                                      key_callbacks, key_callbacks', input_raised')
                /\ UNCHANGED <<mouse_callbacks, cursor_callbacks>>
          /\ r[1] = "add_mouse_callback" =>
                /\ RegistrationEffect(RecognizedButtons, r[2], r[3],
                                      mouse_callbacks, mouse_callbacks', input_raised')
                /\ UNCHANGED <<key_callbacks, cursor_callbacks>>]_vars

\* C11 witness: a callback was registered through the lower-case name of a
\* key, and a later add_mouse_callback with an unknown name raised and
\* registered nothing.
C11_Witness ==
    /\ Len(registrations) = 2
    /\ registrations[1] = <<"add_key_callback", "a", "f">>
    /\ registrations[2] = <<"add_mouse_callback", "bogus", "g">>
    /\ input_raised = "UnknownKeyError"
    /\ key_callbacks = [k \in {65} |-> <<"f">>]
    /\ mouse_callbacks = EmptyTable

\* ---- OpenGLComponent and its shapes (ComponentSpec)
Constructors ==
    {"OpenGLComponent", "Points", "Lines", "Triangles", "Trapezoid", "Rectangle",
     "Square", "Circle"}

\* C12: every constructor called with a color that is not None and has not
\* exactly four entries raises and produces no component; with color None
\* the component produced has the color (0, 0, 0, 1); with a four-entry color
\* it stores exactly that color. A None or four-entry color makes no
\* constructor raise (Trapezoid still requires its four vertices).
C12_ColorChecked ==
    component_op.op \in Constructors =>
        LET color == component_op.color IN
        /\ (~color.none /\ Len(color.entries) # 4) =>
              /\ component_raised # "None"
              /\ component = NoComponent
        /\ (color.none \/ Len(color.entries) = 4) =>
              /\ component_raised = "None" =>
                    /\ component.class = component_op.op
                    /\ component.color =
                          IF color.none THEN <<0, 0, 0, 1>> ELSE color.entries
              /\ component_raised # "None" =>
                    /\ component_op.op = "Trapezoid"
                    /\ Len(component_op.vertices) # 4
                    /\ component = NoComponent

\* C12 witness: a Circle asked for with a three-entry color raised and left
\* no component.
C12_Witness ==
    /\ component_op.op = "Circle"
    /\ component_op.color = Color(<<1, 0, 0>>)
    /\ component_raised = "ValueError"
    /\ component = NoComponent

\* ---- OpenGLSession.render (SessionSpec)
\* the positions of the draw calls in the GL calls of the last operation
DrawPositions == {i \in 1 .. Len(gl_calls) : gl_calls[i].fn = "glDrawArrays"}

\* the position of the i-th draw call (0 for i = 0)
DrawPosition(i) ==
    IF i = 0 THEN 0
    ELSE CHOOSE p \in DrawPositions : Cardinality({q \in DrawPositions : q <= p}) = i

\* the calls issued after the (i-1)-th draw call and before the i-th
BoundFor(i) == SubSeq(gl_calls, DrawPosition(i - 1) + 1, DrawPosition(i) - 1)

MaterialBindings ==
    { <<"glUniform1f", "ka">>, <<"glUniform1f", "kd">>, <<"glUniform1f", "ks">>,
      <<"glUniform1f", "ns">>, <<"glUniformMatrix4fv", "model">> }

\* C13: a render() that does not raise issues one draw call per material, in
\* registration order; between the previous draw call and the draw call of
\* the i-th material exactly ka, kd, ks, ns and the model matrix of that
\* material and the texture i-1 are bound, once each; the i-th draw call
\* starts at the sum of the vertex counts of the materials before it and
\* covers the vertex count of its material; nothing follows the last draw
\* call. Over an upload of the same materials the slice drawn holds exactly
\* the vertices of the material whose uniforms are bound.
C13_BindingsPrecedeDraw ==
    (session_op = "render" /\ raised = "None") =>
        /\ Cardinality(DrawPositions) = Len(materials)
        /\ Len(gl_calls) = DrawPosition(Len(materials))
        /\ \A i \in 1 .. Len(materials) :
              LET bound == BoundFor(i)
                  draw == gl_calls[DrawPosition(i)]
                  uniforms == SelectSeq(bound, LAMBDA c : <<c.fn, c.arg>> \in MaterialBindings)
                  textures == SelectSeq(bound, LAMBDA c : c.fn = "glBindTexture")
              IN  /\ Len(bound) = Len(uniforms) + Len(textures)
                  /\ Len(uniforms) = Cardinality(MaterialBindings)
                  /\ {<<uniforms[k].fn, uniforms[k].arg>> : k \in 1 .. Len(uniforms)}
                        = MaterialBindings
                  /\ \A k \in 1 .. Len(uniforms) : uniforms[k].mt = materials[i]
                  /\ Len(textures) = 1
                  /\ textures[1].first = i - 1
                  /\ draw.first = SumSeq([j \in 1 .. i - 1 |-> Len(MtVertices(materials[j]))])
                  /\ draw.count = Len(MtVertices(materials[i]))
                  /\ gpu_vertices = get_vertices(materials) =>
                        SubSeq(gpu_vertices, draw.first + 1, draw.first + draw.count)
                           = MtVertices(materials[i])

\* C13 witness: a render() of three materials of two components, over their
\* own upload, that did not raise.
C13_Witness ==
    /\ session_op = "render"
    /\ raised = "None"
    /\ materials = <<<<1, 1>>, <<2, 1>>, <<2, 2>>>>
    /\ gpu_vertices = get_vertices(materials)
    /\ Len(gl_calls) = 21

\* ---- OpenGLComponent.transform (ComponentSpec)
\* C14 (as claimed): transform(matrix), for a matrix the vertices can be
\* multiplied by, replaces the vertices by vertices . matrix, keeps
\* len(component) and leaves primitive and color unchanged, raising nothing.
C14_TransformRightMultiplies ==
    [][(component_op'.op = "transform"
          /\ Aligned(component.vertices, component_op'.matrix))
         => /\ component_raised' = "None"
            /\ component'.vertices = np_dot(component.vertices, component_op'.matrix)
            /\ len(component') = len(component)
            /\ component'.primitive = component.primitive
            /\ component'.color = component.color]_vars

\* ---- Circle (ComponentSpec)
\* |a - b| <= tolerance
Near(a, b, tolerance) == a - b <= tolerance /\ b - a <= tolerance

\* C15: a Circle built from (x0, y0), radius r and N >= 3 has exactly N
\* vertices; each lies at distance r from the center, within one part in a
\* thousand (squared distances compared); from each vertex to the next the
\* direction from the center turns counter-clockwise by 360/N degrees (dot
\* and cross product of the two offsets are r*r*cos(360/N) and
\* r*r*sin(360/N), within the same tolerance); and the last vertex is at
\* angle 360 degrees, the point (x0 + r, y0). Hence the k-th is at k*360/N.
C15_CircleVertices ==
    (component_op.op = "Circle" /\ component_raised = "None") =>
        LET x0 == component_op.numbers[1]
            y0 == component_op.numbers[2]
            r == component_op.numbers[3]
            N == component_op.numbers[4]
            v == component.vertices
            dx(k) == v[k][1] - x0 * 1000
            dy(k) == v[k][2] - y0 * 1000
            tolerance == r * r * 1000
        IN  /\ Len(v) = N
            /\ len(component) = N
            /\ \A k \in 1 .. N :
                  Near(dx(k) * dx(k) + dy(k) * dy(k), r * r * 1000000, tolerance)
            /\ \A k \in 1 .. N - 1 :
                  /\ Near(dx(k) * dx(k + 1) + dy(k) * dy(k + 1),
                          r * r * 1000 * np_cos(360 \div N), tolerance)
                  /\ Near(dx(k) * dy(k + 1) - dy(k) * dx(k + 1),
                          r * r * 1000 * np_sin(360 \div N), tolerance)
            /\ v[N] = <<(x0 + r) * 1000, y0 * 1000>>

\* C15 witness: a circle of twelve vertices, radius 2, center (1, 0).
C15_Witness ==
    /\ component_op.op = "Circle"
    /\ component_op.numbers = <<1, 0, 2, 12>>
    /\ component_raised = "None"
    /\ Len(component.vertices) = 12
    /\ component.vertices[3] = <<1000, 2000>>

\* ---- RestrictedCamera against Camera (CameraSpec)
\* the cameras the plain Camera operation can leave
PlainMove(op, cam) ==
    CASE op = "move_forward" -> {Camera_move_forward(cam)}
      [] op = "move_backward" -> {Camera_move_backward(cam)}
      [] op = "move_right" -> Camera_move_right(cam)
      [] op = "move_left" -> Camera_move_left(cam)

\* C16: for each of the four move operations of a RestrictedCamera, if the
\* position the plain Camera reaches lies inside the box, bounds included,
\* the RestrictedCamera ends exactly there; otherwise its position is the
\* one before the call; yaw, pitch, front, up, the last cursor position and
\* every other field are unchanged in both cases.
C16_RestrictedAgreesWithCamera ==
    [][(camera.kind = "RestrictedCamera" /\ camera_op' \in MoveOps) =>
         /\ \E plain \in PlainMove(camera_op', camera) :
               IF InBox(plain)
               THEN camera'.position = plain.position
               ELSE camera'.position = camera.position
         /\ camera' = [camera EXCEPT !.position = camera'.position]
      ]_vars

\* C16 witness: a RestrictedCamera moved forward onto the lower z bound of
\* its box and stands there.
C16_Witness ==
    /\ camera.kind = "RestrictedCamera"
    /\ camera_op = "move_forward"
    /\ camera.front = Vec(0, 0, -1)
    /\ camera.speed = 1
    /\ camera.min_zpos = 0
    /\ camera.position = Vec(0, 0, 0)

\* ---- Camera.move_front (CameraSpec)
\* C17: every move_front call stores the cursor position it was given and
\* adds sensitivity times the cursor's x displacement to yaw, so that after
\* any sequence of calls yaw is the construction yaw (-90) plus sensitivity
\* times (last_xpos minus the construction last_xpos, 0), whatever the
\* positions in between; a call repeated with the cursor position of the
\* call before it leaves yaw, pitch and front unchanged; and no move_front
\* call changes the position (or speed, sensitivity, up, active, the box).
C17_YawFollowsCursor ==
    [][camera_op' = "move_front" =>
         /\ camera'.last_xpos \in CursorX
         /\ camera'.last_ypos \in CursorY
         /\ camera'.yaw = camera.yaw
                          + camera.sensitivity * (camera'.last_xpos - camera.last_xpos)
         /\ camera'.yaw = -90 + camera.sensitivity * (camera'.last_xpos - 0)
         /\ (camera_op = "move_front"
               /\ camera'.last_xpos = camera.last_xpos
               /\ camera'.last_ypos = camera.last_ypos) =>
                  /\ camera'.yaw = camera.yaw
                  /\ camera'.pitch = camera.pitch
                  /\ camera'.front = camera.front
         /\ camera' = [camera EXCEPT !.last_xpos = camera'.last_xpos,
                                     !.last_ypos = camera'.last_ypos,
                                     !.yaw = camera'.yaw,
                                     !.pitch = camera'.pitch,
                                     !.front = camera'.front]
      ]_vars

\* C17 witness: after move_front calls and moves in between, the cursor is
\* at (1, -1), yaw is -90 + 180 * 1 and the camera is away from where it
\* was constructed.
C17_Witness ==
    /\ camera_op = "move_front"
    /\ camera.sensitivity = 180
    /\ camera.last_xpos = 1
    /\ camera.last_ypos = -1
    /\ camera.yaw = 90
    /\ camera.position \notin InitialPositions

\* ---- Lines and Triangles (ComponentSpec)
\* C18 (as claimed): for every vertex list, Lines gives GL_LINES without a
\* mode, GL_LINE_STRIP for "strip", GL_LINE_LOOP for "loop", and Triangles
\* gives GL_TRIANGLES without a mode, GL_TRIANGLE_STRIP for "strip",
\* GL_TRIANGLE_FAN for "fan"; any other mode gives the default primitive.
C18_PrimitiveByMode ==
    /\ (component_op.op = "Lines" /\ component_raised = "None") =>
          component.primitive =
             CASE component_op.mode = "strip" -> "GL_LINE_STRIP"
               [] component_op.mode = "loop" -> "GL_LINE_LOOP"
               [] OTHER -> "GL_LINES"
    /\ (component_op.op = "Triangles" /\ component_raised = "None") =>
          component.primitive =
             CASE component_op.mode = "strip" -> "GL_TRIANGLE_STRIP"
               [] component_op.mode = "fan" -> "GL_TRIANGLE_FAN"
               [] OTHER -> "GL_TRIANGLES"

\* ---- OpenGLSession.add_components (SessionSpec)
\* the paths (index sequences) that lead from a collection to its leaves
RECURSIVE LeafPaths(_)
LeafPaths(item) ==
    IF item.leaf THEN {<<>>}
    ELSE UNION {{<<i>> \o path : path \in LeafPaths(item.items[i])} :
                   i \in 1 .. Len(item.items)}

RECURSIVE ItemAt(_, _)
ItemAt(item, path) ==
    IF path = <<>> THEN item ELSE ItemAt(item.items[Head(path)], Tail(path))

\* path p comes before path q in a depth-first, left-to-right walk
Before(p, q) ==
    \E k \in 1 .. Len(p) :
        /\ k <= Len(q)
        /\ p[k] < q[k]
        /\ \A j \in 1 .. k - 1 : p[j] = q[j]

\* the leaf components of a collection in depth-first, left-to-right order
LeavesInOrder(collection) ==
    LET paths == LeafPaths(collection)
        nth(k) == CHOOSE p \in paths : Cardinality({q \in paths : Before(q, p)}) = k - 1
    IN  [k \in 1 .. Cardinality(paths) |-> ItemAt(collection, nth(k)).component]

\* that order, for each collection add_components is given
ExpectedLeaves == [collection \in Collections |-> LeavesInOrder(collection)]

\* C19: add_components on a nested collection leaves the material list as
\* its previous content followed by the materials of every leaf component,
\* the leaves taken depth-first and left to right and each component's
\* materials in its own order, once per occurrence of the leaf; it raises
\* nothing and leaves the buffered flag (and the GPU state) unchanged.
C19_AddComponentsDepthFirst ==
    [][session_op' = "add_components" =>
         LET leaves == ExpectedLeaves[session_arg'] IN
         /\ materials' =
               materials \o ConcatAll([k \in 1 .. Len(leaves) |->
                                          [j \in 1 .. leaves[k] |-> <<leaves[k], j>>]])
         /\ raised' = "None"
         /\ UNCHANGED <<buffered, gpu_vertices, gpu_textures, uniform_buffers>>
      ]_vars

\* C19 witness: add_components was given [2, [[1]]] on a session holding an
\* earlier upload, and the materials of component 2 and then of component 1
\* are registered, the upload untouched.
C19_Witness ==
    /\ session_op = "add_components"
    /\ session_arg = List(<<Leaf(2), List(<<List(<<Leaf(1)>>)>>)>>)
    /\ materials = <<<<2, 1>>, <<2, 2>>, <<1, 1>>>>
    /\ gpu_vertices # <<>>

\* ---- textures (SessionSpec)
\* the texture ids bound by the last operation, in order
BoundTextures ==
    LET binds == SelectSeq(gl_calls, LAMBDA c : c.fn = "glBindTexture")
    IN  [i \in 1 .. Len(binds) |-> binds[i].first]

\* the i-th material is drawn with a texture id of its own, and the image in
\* that texture is the one loaded from the material's texture_filepath
TexturesMatch ==
    /\ Len(BoundTextures) = Len(materials)
    /\ \A i \in 1 .. Len(materials) :
          LET id == BoundTextures[i] IN
          /\ id = i - 1
          /\ id + 1 \in DOMAIN gpu_textures
          /\ gpu_textures[id + 1] = MtTextureFilepath(materials[i])
          /\ gl_calls[DrawPosition(i) - 1].fn = "glBindTexture"
          /\ gl_calls[DrawPosition(i) - 1].first = id
    /\ \A i, j \in 1 .. Len(materials) : i # j => BoundTextures[i] # BoundTextures[j]

\* C20: a render() that follows a process_buffers() that did not raise,
\* directly or after further render() calls only, does not raise and binds,
\* right before the draw call of the i-th material, the texture id i-1,
\* which holds the image process_buffers() loaded from that material's
\* texture_filepath; the ids of different materials differ.
C20_TextureOfMaterial ==
    [][(/\ session_op' = "render"
        /\ \/ session_op = "process_buffers" /\ raised = "None"
           \/ session_op = "render" /\ raised = "None" /\ TexturesMatch)
         => (raised' = "None" /\ TexturesMatch')]_vars

\* C20 witness: a render() of three materials, each drawn with its own
\* texture, on a session that has registered and uploaded before.
C20_Witness ==
    /\ session_op = "render"
    /\ raised = "None"
    /\ materials = <<<<2, 1>>, <<2, 2>>, <<1, 1>>>>
    /\ BoundTextures = <<0, 1, 2>>
    /\ gpu_textures = <<<<"texture", 2, 1>>, <<"texture", 2, 2>>, <<"texture", 1, 1>>>>

\* ---- repeated render (SessionSpec)
\* C21: render(), whether it raises or not, leaves the material list, the
\* buffered flag, the uniform handles, the program and the uploads as they
\* were; and a render() called right after a render() that did not raise
\* does not raise either and issues the same GL calls, hence the same draw
\* calls in the same order with the same offsets and counts.
C21_RenderLeavesState ==
    [][session_op' = "render" =>
         /\ UNCHANGED <<session, materials, buffered, uniform_buffers, program,
                        gl_current_program, gpu_vertices, gpu_textures>>
         /\ (session_op = "render" /\ raised = "None") =>
               /\ raised' = "None"
               /\ gl_calls' = gl_calls
               /\ Draws' = Draws
         /\ (buffered /\ raised' = "None") =>
               /\ Len(Draws') = Len(materials)
               /\ gl_calls' = Render(TRUE, materials').calls
      ]_vars

\* C21 witness: a render() of the two materials of component 2 that did not
\* raise, with the session still buffered and holding their upload.
C21_Witness ==
    /\ session_op = "render"
    /\ raised = "None"
    /\ buffered = TRUE
    /\ materials = <<<<2, 1>>, <<2, 2>>>>
    /\ gpu_vertices = get_vertices(materials)
    /\ Len(Draws) = 2

\* ---- the buffered flag (SessionSpec)
UploadCalls ==
    {gl_calls[i].arg : i \in {j \in 1 .. Len(gl_calls) : gl_calls[j].fn = "glBufferData"}}

\* C22: a session without materials is never buffered; process_buffers() on
\* it raises before any buffer is uploaded and leaves buffered = False, and
\* a render() right after it raises UninitializedBufferException. A
\* process_buffers() that raises never changes the flag, and the flag goes
\* from False to True only in a process_buffers() that did not raise, on a
\* non-empty material list, after it uploaded the position, texture and
\* normal buffers, the position buffer holding every material's vertices.
C22_BufferedOnlyAfterUpload ==
    [][/\ materials = <<>> => buffered = FALSE
       /\ (session_op' = "process_buffers" /\ materials = <<>>) =>
             /\ raised' # "None"
             /\ buffered' = FALSE
             /\ UploadCalls' = {}
       /\ (session_op = "process_buffers" /\ materials = <<>> /\ session_op' = "render") =>
             /\ raised' = "UninitializedBufferException"
             /\ Draws' = <<>>
       /\ (session_op' = "process_buffers" /\ raised' # "None") => buffered' = buffered
       /\ (buffered = FALSE /\ buffered' = TRUE) =>
             /\ session_op' = "process_buffers"
             /\ raised' = "None"
             /\ materials' # <<>>
             /\ materials' = materials
             /\ UploadCalls' = {"position", "texture_coord", "normals"}
             /\ gpu_vertices' = ConcatAll([i \in 1 .. Len(materials) |->
                                              MtVertices(materials[i])])
             /\ Len(gpu_textures') >= Len(materials)
      ]_vars

\* C22 witness: after an upload and clear_components(), process_buffers()
\* on the emptied session raised and left the flag False.
C22_Witness ==
    /\ session_op = "process_buffers"
    /\ materials = <<>>
    /\ raised = "ValueError"
    /\ buffered = FALSE
    /\ gpu_vertices # <<>>

\* ---- uniform handles (SessionSpec)
UnguardedOps == {"view", "projection", "move_light"}

HandleUsedBy(op) ==
    CASE op = "view" -> uniform_buffers["view"]
      [] op = "projection" -> uniform_buffers["projection"]
      [] op = "move_light" -> uniform_buffers["lightPos"]

\* C23: in every state with buffered = True all eight uniform handles
\* (model, view, projection, ka, kd, ks, ns, lightPos) are resolved; view(),
\* projection() and move_light() never raise UninitializedBufferException,
\* whatever the flag: each makes its one uniform call on the handle stored
\* in the session, which is None as long as no process_buffers() has
\* completed.
C23_HandlesResolvedWhenBuffered ==
    /\ DOMAIN uniform_buffers = UniformNames
    /\ buffered = TRUE => \A u \in UniformNames : uniform_buffers[u] # "None"
    /\ session_op \in UnguardedOps =>
          /\ raised # "UninitializedBufferException"
          /\ Len(gl_calls) = 1
          /\ gl_calls[1].arg = HandleUsedBy(session_op)
          /\ gpu_vertices = <<>> => gl_calls[1].arg = "None"
          /\ raised # "None" => gl_calls[1].arg = "None"

\* C23 witness: view() was called on a session with registered materials
\* before any process_buffers(), used the None handle and did not raise.
C23_Witness ==
    /\ session_op = "view"
    /\ buffered = FALSE
    /\ materials # <<>>
    /\ gpu_vertices = <<>>
    /\ gl_calls = <<Call("glUniformMatrix4fv", "None", NoMaterial, 0, 0)>>
    /\ raised = "None"

====
